---- MODULE Spec2Model ----
(***************************************************************************)
(* RSS news-feed aggregator: ingest -> dedup -> classify -> publish, with  *)
(* the file-based ledger of handled links (posted.json).                   *)
(*                                                                         *)
(* Time is counted in units of 24 hours (HOURS_24 = 1), so the retention   *)
(* window of cleanOldEntries is 7 units; a run is taken to last less than  *)
(* one unit, so the clock advances between runs.  One action is one        *)
(* continuation of the async code: it runs from one await to the next (or  *)
(* to the end of main, ledger save included).  The process can stop at any *)
(* await; it is started again by the next Run.  PureSpec applies the       *)
(* functions of the program to arguments of their own.                     *)
(***************************************************************************)
EXTENDS FiniteSets, Integers, Sequences, TLC

----------------------------------------------------------------------------
(* Bounds of the model *)

StartTime == 9
MaxTicks == 1
MaxItems == 2
MaxText == 4
MaxString == 5

----------------------------------------------------------------------------
(* Program constants *)

HOURS_24 == 1

SEVEN_DAYS == 7 * HOURS_24

Categories == <<"technology", "corporate_finance", "eam_build_up">>

CategorySet == {Categories[i] : i \in 1..Len(Categories)}

\* feeds.json as main reads it: the feeds of each category
FeedsConfig ==
  [technology |-> <<"t1", "t2">>,
   corporate_finance |-> <<"c1">>,
   eam_build_up |-> <<"e1">>]

----------------------------------------------------------------------------
(* Values *)

\* article links: URLs, never the name of a member of Object.prototype
Links == {"a", "b"}

\* item.link of an entry without link (undefined or empty: falsy)
NoLink == ""

\* item.pubDate: absent, a string Date cannot parse, or a date
MissingDate == [k |-> "missing", t |-> 0]

InvalidDate == [k |-> "invalid", t |-> 0]

DateOf(t) == [k |-> "date", t |-> t]

\* a date at the recency cutoff of a run at StartTime, and a date that stays
\* ahead of the clock
EdgeDate == DateOf(StartTime - HOURS_24)

FutureDate == DateOf(StartTime + (MaxTicks + 1) * SEVEN_DAYS)

\* the publish dates of the links in the worlds explored
Worlds ==
  {[a |-> EdgeDate, b |-> InvalidDate],
   [a |-> EdgeDate, b |-> FutureDate],
   [a |-> FutureDate, b |-> MissingDate]}

\* the deployments explored: which categories have a webhook
WebhookConfigs ==
  {[technology |-> TRUE, corporate_finance |-> FALSE, eam_build_up |-> FALSE],
   [technology |-> FALSE, corporate_finance |-> TRUE, eam_build_up |-> TRUE]}

\* the entry a feed lists for a link: every link has one publish date, kept
\* by all the feeds that list it; an entry without link carries no date
ItemOf(link, dates) ==
  [link |-> link, pubDate |-> IF link = NoLink THEN MissingDate ELSE dates[link]]

RECURSIVE SeqsUpTo(_, _)
SeqsUpTo(S, n) ==
  IF n = 0 THEN {<<>>}
  ELSE LET shorter == SeqsUpTo(S, n - 1)
       IN shorter \cup {Append(s, x) : s \in {q \in shorter : Len(q) = n - 1}, x \in S}

\* what parser.parseURL can produce: a rejection, or a list of items
FetchResults(dates) ==
  {[ok |-> FALSE, items |-> <<>>]}
    \cup {[ok |-> TRUE, items |-> [i \in 1..Len(ls) |-> ItemOf(ls[i], dates)]] :
            ls \in SeqsUpTo(Links \cup {NoLink}, MaxItems)}

\* JS numbers as far as the code needs them: NaN or an integer
Num(n) == [nan |-> FALSE, v |-> n]

NaN == [nan |-> TRUE, v |-> 0]

\* x < c for a JS number x and an integer c: false when x is NaN
LessThan(x, c) == ~x.nan /\ x.v < c

\* item.pubDate ? new Date(item.pubDate).getTime() : 0
PubTime(pubDate) ==
  IF pubDate.k = "missing" THEN Num(0)
  ELSE IF pubDate.k = "invalid" THEN NaN
  ELSE Num(pubDate.t)

----------------------------------------------------------------------------
(* Ledger store *)

EmptyLedger == [l \in {} |-> 0]

AbsentFile == [kind |-> "absent", map |-> EmptyLedger]

GarbageFile == [kind |-> "garbage", map |-> EmptyLedger]

\* a file holding the JSON text null
NullFile == [kind |-> "null", map |-> EmptyLedger]

ObjectFile(p) == [kind |-> "object", map |-> p]

\* the files the first run can find
StartFiles == {AbsentFile, NullFile}

\* variant: no link counts as posted
Has_never(p, link) == FALSE

\* posted[link] used as a condition: present and not 0
Has(p, link) == link \in DOMAIN p /\ p[link] # 0

\* posted[link] = Date.now()
Mark(p, link, t) == [l \in DOMAIN p \cup {link} |-> IF l = link THEN t ELSE p[l]]

\* what loadPosted returns: an object, or the value null
Parsed(p) == [null |-> FALSE, map |-> p]

ParsedNull == [null |-> TRUE, map |-> EmptyLedger]

\* existsSync is false or JSON.parse throws: {}; else the parsed value
loadPosted(f) ==
  IF f.kind = "absent" THEN Parsed(EmptyLedger)
  ELSE IF f.kind = "garbage" THEN Parsed(EmptyLedger)
  ELSE IF f.kind = "null" THEN ParsedNull
  ELSE Parsed(f.map)

\* Object.keys(posted) and Object.entries(posted) throw a TypeError for null
ThrowsOnEntries(value) == value.null

\* variant: the retention window is the recency window
cleanOldEntries_short(p, t) ==
  LET cutoff == t - HOURS_24
      kept == {l \in DOMAIN p : p[l] > cutoff}
  IN [l \in kept |-> p[l]]

\* variant: an entry at the cutoff is kept
cleanOldEntries_inclusive(p, t) ==
  LET cutoff == t - SEVEN_DAYS
      kept == {l \in DOMAIN p : p[l] >= cutoff}
  IN [l \in kept |-> p[l]]

cleanOldEntries(p, t) ==
  LET cutoff == t - SEVEN_DAYS
      kept == {l \in DOMAIN p : p[l] > cutoff}
  IN [l \in kept |-> p[l]]

----------------------------------------------------------------------------
(* Relevance classifier *)

toLowerCaseChar(c) ==
  CASE c = "Y" -> "y"
    [] c = "E" -> "e"
    [] c = "S" -> "s"
    [] c = "N" -> "n"
    [] c = "O" -> "o"
    [] OTHER -> c

toLowerCase(s) == [i \in 1..Len(s) |-> toLowerCaseChar(s[i])]

IsSpace(c) == c \in {" ", "\n"}

RECURSIVE trimStart(_)
trimStart(s) ==
  IF s # <<>> /\ IsSpace(Head(s)) THEN trimStart(Tail(s)) ELSE s

RECURSIVE trimEnd(_)
trimEnd(s) ==
  IF s # <<>> /\ IsSpace(s[Len(s)]) THEN trimEnd(SubSeq(s, 1, Len(s) - 1)) ELSE s

\* variant: the answer is compared as it comes
trim_none(s) == s

trim(s) == trimEnd(trimStart(s))

Yes == <<"y", "e", "s">>

AnswerTexts ==
  {Yes, <<" ", "Y", "e", "s", "\n">>, <<"n", "o">>, <<>>, <<"y", "e", "s", "!">>}

\* The outcome of the fetch to the classification oracle:
\*   kind "throw": fetch rejected (transport error);
\*   kind "http": a response with ok status or not, and a body that is not
\*   JSON ("notjson"), JSON without content list ("nocontent"), with an empty
\*   content list ("empty"), with a first element without text ("notext"),
\*   or with a first element with text ("text").
BodyShapes == {"notjson", "nocontent", "empty", "notext", "text"}

ClassifyResponses ==
  {[kind |-> "throw", ok |-> FALSE, shape |-> "notjson", text |-> <<>>]}
    \cup {[kind |-> "http", ok |-> FALSE, shape |-> "notjson", text |-> <<>>]}
    \cup {[kind |-> "http", ok |-> TRUE, shape |-> sh, text |-> <<>>] :
            sh \in BodyShapes \ {"text"}}
    \cup {[kind |-> "http", ok |-> TRUE, shape |-> "text", text |-> tx] :
            tx \in AnswerTexts}

\* the classification call failed: no usable answer came back
ClassifyFailed(resp) ==
  resp.kind = "throw" \/ ~resp.ok \/ resp.shape # "text"

\* isRelevant with a credential, given the outcome of the fetch
isRelevantResponse(resp) ==
  IF resp.kind = "throw" THEN TRUE
  ELSE IF ~resp.ok THEN TRUE
  ELSE IF resp.shape = "notjson" THEN TRUE
  ELSE IF resp.shape = "nocontent" THEN TRUE
  ELSE IF resp.shape \in {"empty", "notext"} THEN FALSE
  ELSE trim(toLowerCase(resp.text)) = Yes

----------------------------------------------------------------------------
(* Publisher *)

\* The outcome of the fetch to the webhook: rejected, or a response with
\* ok status or not whose body can be read or not.
PostResponses ==
  {[kind |-> "throw", ok |-> FALSE, readable |-> FALSE]}
    \cup [kind : {"http"}, ok : BOOLEAN, readable : BOOLEAN]

\* variant: an exception counts as a success
postToSlack_failOpen(resp) ==
  IF resp.kind = "throw" THEN TRUE
  ELSE IF ~resp.readable THEN FALSE
  ELSE resp.ok

postToSlack(resp) ==
  IF resp.kind = "throw" THEN FALSE
  ELSE IF ~resp.readable THEN FALSE
  ELSE resp.ok

----------------------------------------------------------------------------
(* Item extraction *)

\* text.slice(0, end): end counts from the end of the text when negative
slice(text, end) ==
  LET e == IF end < 0 THEN Len(text) + end ELSE end
      stop == IF e < 0 THEN 0 ELSE IF e > Len(text) THEN Len(text) ELSE e
  IN SubSeq(text, 1, stop)

Ellipsis == <<".", ".", ".">>

\* variant: the text is cut at maxLength and the marker is added to it
truncate_late(text, maxLength) ==
  IF Len(text) <= maxLength THEN text
  ELSE slice(text, maxLength) \o Ellipsis

truncate(text, maxLength) ==
  IF Len(text) <= maxLength THEN text
  ELSE slice(text, maxLength - 3) \o Ellipsis

\* variant: no recency check
IsNewItem_anyAge(item, p, cutoff) ==
  /\ item.link # NoLink
  /\ ~Has(p, item.link)

\* the filter of processFeed's loop
IsNewItem(item, p, cutoff) ==
  /\ item.link # NoLink
  /\ ~Has(p, item.link)
  /\ ~LessThan(PubTime(item.pubDate), cutoff)

\* variant: a feed that cannot be fetched is taken to list every link
processFeed_stale(res, p, cutoff) ==
  IF res.ok
  THEN LET new == SelectSeq(res.items, LAMBDA item : IsNewItem(item, p, cutoff))
       IN [i \in 1..Len(new) |-> [link |-> new[i].link]]
  ELSE <<[link |-> "a"]>>

processFeed(res, p, cutoff) ==
  IF res.ok
  THEN LET new == SelectSeq(res.items, LAMBDA item : IsNewItem(item, p, cutoff))
       IN [i \in 1..Len(new) |-> [link |-> new[i].link]]
  ELSE <<>>

LinksOf(arts) == {arts[i].link : i \in 1..Len(arts)}

----------------------------------------------------------------------------
VARIABLES
  now,             \* Date.now(), in units of 24 hours
  ticks,           \* number of times the clock has advanced
  file,            \* POSTED_FILE
  webhook,         \* WEBHOOK_MAP: is a webhook URL set for the category
  apiKey,          \* ANTHROPIC_API_KEY is set
  pubDate,         \* the publish date the feeds give for each link
  pc,              \* where main is suspended: idle, fetch, classify, post, delay
  posted,          \* main's ledger
  cutoffTime,      \* main's cutoffTime
  cat,             \* index of the category being processed
  feed,            \* index of the feed being processed
  articles,        \* the articles processFeed returned
  idx,             \* index of the article being processed
  relevant,        \* result of the last isRelevant call
  success,         \* result of postToSlack for the article
  \* record of the run
  items,           \* the items of the last fetch
  fetchError,      \* the last fetch was rejected
  classifyError,   \* the last call to the oracle failed
  startPosted,     \* ledger after pruning at run start
  fetched,         \* the feeds processFeed was called for in this run
  delivered,       \* links postToSlack returned true for in this run
  failedPub,       \* links postToSlack returned false for in this run
  irrelevant,      \* links isRelevant returned false for in this run
  outcome,         \* how the run ended: none (not yet), complete, error, stopped
  failure,         \* the step whose error ended the run: none, config, ledger, save
  lastOutcome,     \* at the start of a run: how the run before it ended
  prevHandled,     \* links marked by the run that wrote the file
  prevFailed,      \* links whose post failed in the last run and it left unmarked
  \* a function called on its own
  call,            \* the call: function, argument, result
  \* a second invocation of main
  other            \* its locals: pc, posted, cutoffTime, cat, feed, articles, idx

pipeline ==
  <<now, ticks, file, webhook, apiKey, pubDate, pc, posted, cutoffTime, cat, feed,
    articles, idx, relevant, success, items, fetchError, classifyError,
    startPosted, fetched, delivered, failedPub, irrelevant, outcome, failure,
    lastOutcome, prevHandled, prevFailed, other>>

vars == <<pipeline, call>>

\* the locals of the first invocation of main and the record of its run
firstRun ==
  <<pc, posted, cutoffTime, cat, feed, articles, idx, relevant, success, items,
    fetchError, classifyError, startPosted, fetched, delivered, failedPub,
    irrelevant, outcome, failure, lastOutcome, prevHandled, prevFailed>>

env == <<webhook, apiKey, pubDate>>

clock == <<now, ticks>>

NoCall == [fn |-> "none"]

\* no second invocation is in progress
IdleRun ==
  [pc |-> "idle", posted |-> EmptyLedger, cutoffTime |-> 0, cat |-> 0,
   feed |-> 0, articles |-> <<>>, idx |-> 0]

PipelineInit ==
  /\ now = StartTime
  /\ ticks = 0
  /\ file \in StartFiles
  /\ webhook \in WebhookConfigs
  /\ apiKey \in BOOLEAN
  /\ pubDate \in Worlds
  /\ pc = "idle"
  /\ posted = EmptyLedger
  /\ cutoffTime = 0
  /\ cat = 0
  /\ feed = 0
  /\ articles = <<>>
  /\ idx = 0
  /\ relevant = FALSE
  /\ success = FALSE
  /\ items = <<>>
  /\ fetchError = FALSE
  /\ classifyError = FALSE
  /\ startPosted = EmptyLedger
  /\ fetched = {}
  /\ delivered = {}
  /\ failedPub = {}
  /\ irrelevant = {}
  /\ outcome = "none"
  /\ failure = "none"
  /\ lastOutcome = "none"
  /\ prevHandled = {}
  /\ prevFailed = {}
  /\ other = IdleRun

Init ==
  /\ PipelineInit
  /\ call = NoCall

----------------------------------------------------------------------------
(* The walk of main over categories, feeds and articles.  r holds main's   *)
(* locals and the record of the run: [posted, cutoffTime, cat, feed,       *)
(* articles, idx, relevant, classifyError, startPosted, fetched,           *)
(* delivered, failedPub, irrelevant].                                      *)

\* variant: a category is processed whether or not it has a webhook
SkipCategory_never(c) == FALSE

\* if (!webhookUrl) continue
SkipCategory(c) == ~webhook[Categories[c]]

\* the feed position main's loops reach from (c, f): the next category with
\* a webhook that has a feed left, or <<0, 0>> when the loops end
RECURSIVE NextFeedPos(_, _)
NextFeedPos(c, f) ==
  IF c > Len(Categories) THEN <<0, 0>>
  ELSE IF ~SkipCategory(c) /\ f <= Len(FeedsConfig[Categories[c]]) THEN <<c, f>>
  ELSE NextFeedPos(c + 1, 1)

\* variant: the ledger is not written
savePosted_skip(p, f) == {[ok |-> TRUE, file |-> f]}

\* writeFileSync succeeds, or throws leaving the file as it was or truncated
savePosted(p, f) ==
  {[ok |-> TRUE, file |-> ObjectFile(p)],
   [ok |-> FALSE, file |-> f],
   [ok |-> FALSE, file |-> GarbageFile]}

\* variant: an error of main is not caught and ends the process
run_rethrow(result) == IF result = "error" THEN "exited" ELSE "idle"

\* run(): main is awaited inside try/catch, so the invocation settles
\* whatever main did and the process waits for the next tick of the timer
run(result) == "idle"

\* variant: the oracle is asked whether or not a key is set
CallsOracle_always(key) == TRUE

\* if (!ANTHROPIC_API_KEY) return true: the oracle is asked only with a key
CallsOracle(key) == key

\* variant: an article that is not relevant is skipped without a mark
MarkIfIrrelevant_never(p, link, rel, t) == p

\* if (!relevant) posted[article.link] = Date.now()
MarkIfIrrelevant(p, link, rel, t) == IF ~rel THEN Mark(p, link, t) ELSE p

\* variant: the article is marked whatever postToSlack returned
MarkIfPosted_always(p, link, ok, t) == Mark(p, link, t)

\* if (success) posted[article.link] = Date.now()
MarkIfPosted(p, link, ok, t) == IF ok THEN Mark(p, link, t) ELSE p

\* variant: the delay is awaited only after a post that succeeded
AfterPost_onSuccess(ok) == IF ok THEN "delay" ELSE "next"

\* await delay(1000) follows both branches of if (success)
AfterPost(ok) == "delay"

\* the links marked in the run
Handled(r) == r.delivered \cup r.irrelevant

\* savePosted(posted) and the end of main
EndRun(r) ==
  \E saved \in savePosted(r.posted, file) :
    /\ file' = saved.file
    /\ outcome' = IF saved.ok THEN "complete" ELSE "error"
    /\ failure' = IF saved.ok THEN "none" ELSE "save"
    /\ prevHandled' = IF saved.ok THEN Handled(r) ELSE {}
    /\ prevFailed' = r.failedPub \ Handled(r)
    /\ pc' = run(IF saved.ok THEN "complete" ELSE "error")
    /\ cat' = 0
    /\ feed' = 0
    /\ articles' = <<>>
    /\ idx' = 0
    /\ posted' = r.posted
    /\ cutoffTime' = r.cutoffTime
    /\ relevant' = r.relevant
    /\ classifyError' = r.classifyError
    /\ startPosted' = r.startPosted
    /\ fetched' = r.fetched
    /\ delivered' = r.delivered
    /\ failedPub' = r.failedPub
    /\ irrelevant' = r.irrelevant

\* the feed loops from position (r.cat, r.feed): processFeed is called and
\* awaits parser.parseURL, or the loops end
ToFeed(r) ==
  LET pos == NextFeedPos(r.cat, r.feed)
  IN IF pos = <<0, 0>> THEN EndRun(r)
     ELSE /\ pc' = "fetch"
          /\ cat' = pos[1]
          /\ feed' = pos[2]
          /\ articles' = <<>>
          /\ idx' = 0
          /\ posted' = r.posted
          /\ cutoffTime' = r.cutoffTime
          /\ relevant' = r.relevant
          /\ classifyError' = r.classifyError
          /\ startPosted' = r.startPosted
          /\ fetched' = r.fetched \cup {FeedsConfig[Categories[pos[1]]][pos[2]]}
          /\ delivered' = r.delivered
          /\ failedPub' = r.failedPub
          /\ irrelevant' = r.irrelevant
          /\ outcome' = "none"
          /\ failure' = "none"
          /\ UNCHANGED <<file, prevHandled, prevFailed>>

\* the article loop at index r.idx: isRelevant is called for the article;
\* without credential it returns true at once and postToSlack is called
ToArticle(r) ==
  IF r.idx <= Len(r.articles)
  THEN /\ IF CallsOracle(apiKey)
          THEN /\ pc' = "classify"
               /\ relevant' = r.relevant
          ELSE /\ pc' = "post"
               /\ relevant' = TRUE
       /\ cat' = r.cat
       /\ feed' = r.feed
       /\ articles' = r.articles
       /\ idx' = r.idx
       /\ posted' = r.posted
       /\ cutoffTime' = r.cutoffTime
       /\ classifyError' = r.classifyError
       /\ startPosted' = r.startPosted
       /\ fetched' = r.fetched
       /\ delivered' = r.delivered
       /\ failedPub' = r.failedPub
       /\ irrelevant' = r.irrelevant
       /\ outcome' = "none"
       /\ failure' = "none"
       /\ UNCHANGED <<file, prevHandled, prevFailed>>
  ELSE ToFeed([r EXCEPT !.feed = r.feed + 1])

Main ==
  [posted |-> posted, cutoffTime |-> cutoffTime, cat |-> cat, feed |-> feed,
   articles |-> articles, idx |-> idx, relevant |-> FALSE,
   classifyError |-> FALSE, startPosted |-> startPosted, fetched |-> fetched,
   delivered |-> delivered, failedPub |-> failedPub, irrelevant |-> irrelevant]

\* main throws before its first await: run() catches the error
Fail(cause) ==
  /\ outcome' = "error"
  /\ failure' = cause
  /\ pc' = run("error")
  /\ prevHandled' = {}
  /\ prevFailed' = {}
  /\ posted' = EmptyLedger
  /\ cutoffTime' = 0
  /\ relevant' = FALSE
  /\ classifyError' = FALSE
  /\ startPosted' = EmptyLedger
  /\ fetched' = {}
  /\ delivered' = {}
  /\ failedPub' = {}
  /\ irrelevant' = {}
  /\ UNCHANGED <<file, cat, feed, articles, idx>>

----------------------------------------------------------------------------
(* Actions *)

\* the timer fires: run() calls main(), which runs to its first await
Run ==
  /\ pc = "idle"
  /\ \E configOk \in BOOLEAN :
       LET value == loadPosted(file)
           loaded == cleanOldEntries(value.map, now)
       IN IF ~configOk THEN Fail("config")   \* reading FEEDS_FILE throws
          ELSE IF ThrowsOnEntries(value) THEN Fail("ledger")
          ELSE ToFeed([posted |-> loaded, cutoffTime |-> now - HOURS_24,
                       cat |-> 1, feed |-> 1, articles |-> <<>>, idx |-> 0,
                       relevant |-> FALSE, classifyError |-> FALSE,
                       startPosted |-> loaded, fetched |-> {},
                       delivered |-> {}, failedPub |-> {}, irrelevant |-> {}])
  /\ lastOutcome' = outcome
  /\ items' = <<>>
  /\ fetchError' = FALSE
  /\ success' = FALSE
  /\ UNCHANGED <<clock, env, call, other>>

\* parser.parseURL settles: processFeed builds the new articles and main
\* goes on to the first of them
FetchDone ==
  /\ pc = "fetch"
  /\ \E res \in FetchResults(pubDate) :
       LET arts == processFeed(res, posted, cutoffTime)
       IN /\ items' = res.items
          /\ fetchError' = ~res.ok
          /\ ToArticle([Main EXCEPT !.articles = arts, !.idx = 1])
  /\ lastOutcome' = "none"
  /\ success' = FALSE
  /\ UNCHANGED <<clock, env, call, other>>

\* the fetch to the oracle settles: isRelevant returns; an article that is
\* not relevant is marked and main goes on to the next one
ClassifyDone ==
  /\ pc = "classify"
  /\ \E resp \in ClassifyResponses :
       LET rel == isRelevantResponse(resp)
           link == articles[idx].link
       IN IF rel
          THEN /\ pc' = "post"
               /\ relevant' = TRUE
               /\ classifyError' = ClassifyFailed(resp)
               /\ UNCHANGED <<posted, cutoffTime, cat, feed, articles, idx,
                              startPosted, fetched, delivered, failedPub,
                              irrelevant, file, outcome, failure, prevHandled,
                              prevFailed>>
          ELSE ToArticle([Main EXCEPT
                            !.posted = MarkIfIrrelevant(posted, link, rel, now),
                            !.idx = idx + 1,
                            !.classifyError = ClassifyFailed(resp),
                            !.irrelevant = @ \cup {link}])
  /\ lastOutcome' = "none"
  /\ items' = <<>>
  /\ fetchError' = FALSE
  /\ success' = FALSE
  /\ UNCHANGED <<clock, env, call, other>>

\* the fetch to the webhook settles: postToSlack returns, the article is
\* marked on success, and main awaits the delay
PostDone ==
  /\ pc = "post"
  /\ \E resp \in PostResponses :
       LET ok == postToSlack(resp)
           link == articles[idx].link
       IN /\ success' = ok
          /\ posted' = MarkIfPosted(posted, link, ok, now)
          /\ delivered' = IF ok THEN delivered \cup {link} ELSE delivered
          /\ failedPub' = IF ok THEN failedPub ELSE failedPub \cup {link}
          /\ pc' = AfterPost(ok)
  /\ lastOutcome' = "none"
  /\ items' = <<>>
  /\ fetchError' = FALSE
  /\ UNCHANGED <<clock, env, call, other, file, cutoffTime, cat, feed,
                 articles, idx, relevant, classifyError, startPosted, fetched,
                 irrelevant, outcome, failure, prevHandled, prevFailed>>

\* delay(1000) resolves: main goes on to the next article
DelayDone ==
  /\ pc = "delay"
  /\ ToArticle([Main EXCEPT !.idx = idx + 1])
  /\ lastOutcome' = "none"
  /\ items' = <<>>
  /\ fetchError' = FALSE
  /\ success' = FALSE
  /\ UNCHANGED <<clock, env, call, other>>

\* the process stops while main is suspended at an await: nothing of the run
\* is written; the ledger object of the run is lost with the process
Crash ==
  /\ pc \in {"fetch", "classify", "post", "delay"}
  /\ pc' = "idle"
  /\ outcome' = "stopped"
  /\ failure' = "none"
  /\ lastOutcome' = "none"
  /\ cat' = 0
  /\ feed' = 0
  /\ articles' = <<>>
  /\ idx' = 0
  /\ relevant' = FALSE
  /\ success' = FALSE
  /\ items' = <<>>
  /\ fetchError' = FALSE
  /\ classifyError' = FALSE
  /\ fetched' = {}
  /\ delivered' = {}
  /\ failedPub' = {}
  /\ irrelevant' = {}
  /\ prevHandled' = {}
  /\ prevFailed' = {}
  /\ UNCHANGED <<clock, env, call, other, file, posted, cutoffTime, startPosted>>

\* time passes: a day, or the retention window
Tick ==
  /\ pc = "idle"
  /\ ticks < MaxTicks
  /\ \E d \in {HOURS_24, SEVEN_DAYS} : now' = now + d
  /\ ticks' = ticks + 1
  /\ UNCHANGED <<file, env, call, other, pc, posted, cutoffTime, cat, feed, articles,
                 idx, relevant, success, items, fetchError, classifyError,
                 startPosted, fetched, delivered, failedPub, irrelevant,
                 outcome, failure, lastOutcome, prevHandled, prevFailed>>

Next ==
  \/ Run
  \/ FetchDone
  \/ ClassifyDone
  \/ PostDone
  \/ DelayDone
  \/ Crash
  \/ Tick

Spec == Init /\ [][Next]_vars

----------------------------------------------------------------------------
(* The functions of the program called on their own: the initial state     *)
(* holds the argument of one call, the action of the function applies it.  *)

Alphabet == {"Y", "y", "e", "s", " ", "n", "o"}

Texts == SeqsUpTo(Alphabet, MaxText)

\* responses of the oracle with ok status and a text in the first element
TextResponses ==
  {[kind |-> "http", ok |-> TRUE, shape |-> "text", text |-> tx] : tx \in Texts}

Stamps == 0 .. (StartTime + HOURS_24)

Ledgers == UNION {[S -> Stamps] : S \in SUBSET Links}

PruneTimes == {StartTime, StartTime + HOURS_24}

\* the texts and the lengths truncate is called with
Strings == SeqsUpTo({"a", "."}, MaxString)

MaxLengths == 3..MaxString

Calls ==
  {[fn |-> "isRelevant", arg |-> resp, done |-> FALSE] :
     resp \in ClassifyResponses \cup TextResponses}
    \cup {[fn |-> "postToSlack", arg |-> resp, done |-> FALSE] :
            resp \in PostResponses}
    \cup {[fn |-> "cleanOldEntries", arg |-> [posted |-> p, now |-> t],
           done |-> FALSE] : p \in Ledgers, t \in PruneTimes}
    \cup {[fn |-> "truncate", arg |-> [text |-> tx, maxLength |-> n],
           done |-> FALSE] : tx \in Strings, n \in MaxLengths}

PureInit ==
  /\ PipelineInit
  /\ file = AbsentFile
  /\ webhook.technology
  /\ apiKey
  /\ pubDate.b = InvalidDate
  /\ call \in Calls

\* isRelevant with a credential, to the value it returns
CallIsRelevant ==
  /\ call.fn = "isRelevant"
  /\ ~call.done
  /\ call' = [fn |-> call.fn, arg |-> call.arg, done |-> TRUE,
              ret |-> isRelevantResponse(call.arg)]
  /\ UNCHANGED pipeline

\* postToSlack, to the value it returns
CallPostToSlack ==
  /\ call.fn = "postToSlack"
  /\ ~call.done
  /\ call' = [fn |-> call.fn, arg |-> call.arg, done |-> TRUE,
              ret |-> postToSlack(call.arg)]
  /\ UNCHANGED pipeline

\* cleanOldEntries, and cleanOldEntries of its result at the same time
CallCleanOldEntries ==
  /\ call.fn = "cleanOldEntries"
  /\ ~call.done
  /\ LET cleaned == cleanOldEntries(call.arg.posted, call.arg.now)
     IN call' = [fn |-> call.fn, arg |-> call.arg, done |-> TRUE,
                 ret |-> cleaned,
                 again |-> cleanOldEntries(cleaned, call.arg.now)]
  /\ UNCHANGED pipeline

\* truncate, to the text it returns
CallTruncate ==
  /\ call.fn = "truncate"
  /\ ~call.done
  /\ call' = [fn |-> call.fn, arg |-> call.arg, done |-> TRUE,
              ret |-> truncate(call.arg.text, call.arg.maxLength)]
  /\ UNCHANGED pipeline

PureNext ==
  \/ CallIsRelevant
  \/ CallPostToSlack
  \/ CallCleanOldEntries
  \/ CallTruncate

PureSpec == PureInit /\ [][PureNext]_vars

----------------------------------------------------------------------------
(* The timer and a run that is still in progress.  setInterval calls run() *)
(* every 30 minutes whether or not the run before has settled, and nothing *)
(* bounds the time a run takes, so a second invocation of main can start   *)
(* while the first is suspended at an await.  The two share the file; each *)
(* has its own posted object.  Deployment without credential: isRelevant   *)
(* returns true at once.                                                   *)

OverlapInit ==
  /\ PipelineInit
  /\ file = AbsentFile
  /\ webhook.technology
  /\ ~apiKey
  /\ pubDate.b = FutureDate
  /\ call = NoCall

\* savePosted(posted) and the end of the second invocation
OtherEndRun(o) ==
  \E saved \in savePosted(o.posted, file) :
    /\ file' = saved.file
    /\ other' = IdleRun

\* the feed loops of the second invocation from position (o.cat, o.feed)
OtherToFeed(o) ==
  LET pos == NextFeedPos(o.cat, o.feed)
  IN IF pos = <<0, 0>> THEN OtherEndRun(o)
     ELSE /\ other' = [o EXCEPT !.pc = "fetch", !.cat = pos[1], !.feed = pos[2],
                                !.articles = <<>>, !.idx = 0]
          /\ UNCHANGED file

\* the article loop of the second invocation at index o.idx
OtherToArticle(o) ==
  IF o.idx <= Len(o.articles)
  THEN /\ other' = [o EXCEPT !.pc = "post"]
       /\ UNCHANGED file
  ELSE OtherToFeed([o EXCEPT !.feed = o.feed + 1])

\* the timer fires while the first invocation is suspended: run() calls
\* main() again, which loads and cleans the ledger and runs to its first await
OtherRun ==
  /\ pc # "idle"
  /\ other.pc = "idle"
  /\ LET value == loadPosted(file)
         loaded == cleanOldEntries(value.map, now)
     IN /\ ~ThrowsOnEntries(value)
        /\ OtherToFeed([pc |-> "idle", posted |-> loaded,
                        cutoffTime |-> now - HOURS_24, cat |-> 1, feed |-> 1,
                        articles |-> <<>>, idx |-> 0])
  /\ UNCHANGED <<clock, env, call, firstRun>>

\* parser.parseURL settles in the second invocation
OtherFetchDone ==
  /\ other.pc = "fetch"
  /\ \E res \in FetchResults(pubDate) :
       LET arts == processFeed(res, other.posted, other.cutoffTime)
       IN OtherToArticle([other EXCEPT !.articles = arts, !.idx = 1])
  /\ UNCHANGED <<clock, env, call, firstRun>>

\* the fetch to the webhook settles in the second invocation
OtherPostDone ==
  /\ other.pc = "post"
  /\ \E resp \in PostResponses :
       LET ok == postToSlack(resp)
           link == other.articles[other.idx].link
       IN other' = [other EXCEPT
                      !.pc = AfterPost(ok),
                      !.posted = MarkIfPosted(other.posted, link, ok, now)]
  /\ UNCHANGED <<clock, env, call, firstRun, file>>

\* delay(1000) resolves in the second invocation
OtherDelayDone ==
  /\ other.pc = "delay"
  /\ OtherToArticle([other EXCEPT !.idx = other.idx + 1])
  /\ UNCHANGED <<clock, env, call, firstRun>>

OverlapNext ==
  \/ Run
  \/ FetchDone
  \/ PostDone
  \/ DelayDone
  \/ OtherRun
  \/ OtherFetchDone
  \/ OtherPostDone
  \/ OtherDelayDone

OverlapSpec == OverlapInit /\ [][OverlapNext]_vars

----------------------------------------------------------------------------
(* Properties *)

Running == pc # "idle"

\* the step is the process stopping in the middle of a run
Stops == pc # "idle" /\ outcome' = "stopped"

\* the link of the article main is working on
Current == articles[idx].link

\* the links main has classified or published in this run
Processed == delivered \cup failedPub \cup irrelevant

\* the item is not excluded by the recency check of the run
Recent(item) == ~LessThan(PubTime(item.pubDate), cutoffTime)

\* the file holds the link with a timestamp inside the retention window
Retained(L) ==
  /\ file.kind = "object"
  /\ L \in DOMAIN file.map
  /\ file.map[L] > now - SEVEN_DAYS

\* C1: a link the previous run marked handled and saved, still inside the
\* retention window, is not a new article of this run: it is neither
\* classified nor published, whatever the feeds return.
C1_DedupAcrossRuns ==
  Running =>
    \A L \in prevHandled :
      Retained(L) => L \notin LinksOf(articles) /\ L \notin Processed

\* a feed of this run lists a recent entry for a link the previous run handled
C1_Witness ==
  /\ Running
  /\ \E i \in 1..Len(items) :
       /\ items[i].link \in prevHandled
       /\ Retained(items[i].link)
       /\ Recent(items[i])

\* C2: in the ledger a run saves, a link whose publish failed is absent
\* (unless it was in the ledger at run start) and a link that was published
\* or classified irrelevant is present.
C2_SavedLedger ==
  (pc = "idle" /\ outcome = "complete") =>
    /\ \A L \in failedPub : L \in DOMAIN file.map => L \in DOMAIN startPosted
    /\ \A L \in delivered \cup irrelevant : L \in DOMAIN file.map

\* C3: postToSlack returns true at most once for a link in one run.
C3_AtMostOncePerRun ==
  [][(pc = "post" /\ success') => Current \notin delivered]_vars

C5_MarkedAfterClassifyFailure ==
  (pc = "delay" /\ classifyError) => Has(posted, Current)

\* C5 (amended): after a failed classification call that made isRelevant
\* return true, the article is published like a relevant one and its link is
\* recorded as handled only when the publish succeeds; when the publish fails
\* the link stays unmarked, unless another entry of the run marked it.
C5_MarkedIffPosted ==
  (pc \in {"post", "delay"} /\ classifyError) =>
    /\ relevant
    /\ pc = "delay" =>
         /\ success => Has(posted, Current) /\ posted[Current] = now
         /\ (~success /\ Current \notin delivered \cup irrelevant)
              => Current \notin DOMAIN posted

\* the classification call failed, the publish failed, the link is unmarked
C5_Witness ==
  /\ pc = "delay"
  /\ classifyError
  /\ ~success
  /\ Current \notin DOMAIN posted

\* C6: an entry whose publish date is missing or cannot be parsed is never a
\* new article.
C6_UndatedNeverNew ==
  \A i \in 1..Len(articles) : pubDate[articles[i].link].k = "date"

\* C7: an entry published before the cutoff of the run is excluded before
\* any classify or publish call and does not get its link into the ledger;
\* an entry published at or after the cutoff whose link is not in the ledger
\* is a new article.
C7_RecencyFilter ==
  /\ [](Running =>
          \A L \in Links :
            LessThan(PubTime(pubDate[L]), cutoffTime) =>
              /\ L \notin LinksOf(articles)
              /\ L \notin Processed
              /\ L \in DOMAIN posted => L \in DOMAIN startPosted)
  /\ [][pc = "fetch" =>
          \A i \in 1..Len(items') :
            /\ LessThan(PubTime(items'[i].pubDate), cutoffTime)
                 => items'[i].link \notin LinksOf(articles')
            /\ (/\ items'[i].link # NoLink
                /\ items'[i].pubDate.k = "date"
                /\ items'[i].pubDate.t >= cutoffTime
                /\ items'[i].link \notin DOMAIN posted)
                 => items'[i].link \in LinksOf(articles')]_vars

\* a feed lists an entry older than the cutoff next to one that is new
C7_Witness ==
  /\ Running
  /\ \E i, j \in 1..Len(items) :
       /\ items[i].link # NoLink
       /\ items[i].pubDate.k = "date"
       /\ items[i].pubDate.t < cutoffTime
       /\ items[j].pubDate.k = "date"
       /\ items[j].link \in LinksOf(articles)

\* C8: without credential no request goes to the oracle, isRelevant returns
\* true, and every article processFeed returned gets a publish attempt: the
\* articles are posted one after the other, none is skipped.
C8_NoCredential ==
  /\ [](~apiKey => pc # "classify" /\ (pc \in {"post", "delay"} => relevant))
  /\ [][(~apiKey /\ ~Stops) =>
          /\ (articles' # <<>> /\ (articles' # articles \/ idx' # idx))
               => /\ pc' = "post"
                  /\ \/ pc = "fetch" /\ idx' = 1
                     \/ pc = "delay" /\ idx' = idx + 1 /\ articles' = articles
          /\ (articles # <<>> /\ articles' # articles)
               => pc = "delay" /\ idx = Len(articles)]_vars

\* without credential the second of two new articles has been posted
C8_Witness ==
  /\ ~apiKey
  /\ pc = "delay"
  /\ idx = 2

\* C9: with a credential, isRelevant returns true whenever the call to the
\* oracle failed.
C9_FailOpen ==
  classifyError => relevant

\* C10: an article isRelevant returned false for is not published, its link
\* is put in the ledger with the current time and main goes on to the next
\* article; postToSlack is called only after isRelevant returned true for
\* the same article.
C10_IrrelevantSkipped ==
  /\ [](pc = "post" => relevant)
  /\ [][/\ (pc = "classify" /\ ~relevant' /\ ~Stops) =>
             /\ Has(posted', Current) /\ posted'[Current] = now
             /\ pc' # "post"
             /\ pc' = "classify" => articles' = articles /\ idx' = idx + 1
             /\ delivered' = delivered /\ failedPub' = failedPub
        /\ (pc' = "post" /\ apiKey) =>
             pc = "classify" /\ articles' = articles /\ idx' = idx]_vars

\* the first article was classified irrelevant and marked, the second is
\* being classified
C10_Witness ==
  /\ pc = "classify"
  /\ idx = 2
  /\ articles[1].link \in irrelevant
  /\ articles[1].link \notin delivered \cup failedPub
  /\ Has(posted, articles[1].link)

\* the feeds of the categories that have a webhook
ActiveFeeds ==
  UNION {{FeedsConfig[c][i] : i \in 1..Len(FeedsConfig[c])} :
           c \in {k \in CategorySet : webhook[k]}}

\* C11: a link that is in the ledger after the pruning at the start of a run
\* is never a new article of that run, is neither classified nor published,
\* keeps its timestamp in main's ledger, and the ledger the run saves maps it
\* to the timestamp it had at run start.
C11_LedgerLinkUntouched ==
  /\ Running =>
       \A L \in DOMAIN startPosted :
         /\ L \notin LinksOf(articles)
         /\ L \notin Processed
         /\ L \in DOMAIN posted
         /\ posted[L] = startPosted[L]
  /\ (pc = "idle" /\ outcome = "complete") =>
       \A L \in DOMAIN startPosted :
         /\ L \in DOMAIN file.map
         /\ file.map[L] = startPosted[L]

\* a feed lists a recent entry whose link the pruned ledger holds
C11_Witness ==
  /\ Running
  /\ \E i \in 1..Len(items) :
       /\ items[i].link \in DOMAIN startPosted
       /\ Recent(items[i])
       /\ items[i].link \notin LinksOf(articles)

\* C12: postToSlack returns a boolean for every outcome of the call to the
\* webhook, and returns true only when the webhook answered with ok status.
C12_PublishReturnsBoolean ==
  (call.fn = "postToSlack" /\ call.done) =>
    /\ call.ret \in BOOLEAN
    /\ call.ret => (call.arg.kind = "http" /\ call.arg.ok)

\* the webhook answered ok, reading the body failed, postToSlack returned false
C12_Witness ==
  /\ call.fn = "postToSlack"
  /\ call.done
  /\ call.arg.kind = "http"
  /\ call.arg.ok
  /\ ~call.arg.readable
  /\ call.ret = FALSE

\* C13: the file is written only by the step that ends a run that went
\* through all categories, with the ledger as it is after the last mark; no
\* step before it writes, so when the run stops earlier the file is as it
\* was at run start and holds none of the marks of the run.
C13_SaveOnceAtEnd ==
  [][/\ pc' # "idle" => file' = file
     /\ file' # file => (pc # "idle" /\ outcome' \in {"complete", "error"})
     /\ outcome' = "complete" => file' = ObjectFile(posted')
     /\ (outcome = "none" /\ outcome' = "stopped") =>
          /\ file' = file
          /\ cleanOldEntries(loadPosted(file').map, now) = startPosted]_vars

\* the run stopped after it had marked a link: the mark is not in the file
C13_Witness ==
  /\ pc = "idle"
  /\ outcome = "stopped"
  /\ \E L \in DOMAIN posted :
       /\ L \notin DOMAIN startPosted
       /\ L \notin DOMAIN file.map

\* C14: an error of a run does not escape run(): the process stays alive
\* and idle, and at every idle state the next tick of the timer starts a run.
C14_TimerSurvivesErrors ==
  /\ outcome = "error" => pc = "idle"
  /\ pc = "idle" => ENABLED Run

\* a run is under way that started after a run that ended in error
C14_Witness ==
  /\ pc = "fetch"
  /\ lastOutcome = "error"

\* C15: a run ends in error only when the ledger save or the configuration
\* load failed.
C15_OnlySaveOrConfigEndsRun ==
  outcome = "error" => failure \in {"save", "config"}

\* C16: when the fetch of a feed is rejected, the feed gives no article, the
\* ledger is as before, main goes on to the next feed of a category with a
\* webhook or to the ledger save, and a run that reaches the save has fetched
\* every feed of every category with a webhook.
C16_FeedFailureIsolated ==
  /\ []((outcome = "complete" \/ failure = "save") => fetched = ActiveFeeds)
  /\ [][(pc = "fetch" /\ fetchError') =>
          /\ articles' = <<>>
          /\ posted' = posted
          /\ pc' = "fetch" =>
               /\ fetched' = fetched \cup {FeedsConfig[Categories[cat']][feed']}
               /\ fetched' # fetched
               /\ webhook[Categories[cat']]
          /\ pc' # "fetch" =>
               /\ pc' = "idle"
               /\ outcome' \in {"complete", "error"}
               /\ failure' \in {"none", "save"}]_vars

\* the fetch of a feed was rejected and main is fetching the next feed
C16_Witness ==
  /\ pc = "fetch"
  /\ fetchError
  /\ Cardinality(fetched) >= 2

\* C17: no feed of a category without webhook is fetched, main never works
\* on such a category, and a run that reaches the save has fetched every
\* feed of the categories with a webhook.
C17_InertCategory ==
  /\ fetched \subseteq ActiveFeeds
  /\ cat # 0 => webhook[Categories[cat]]
  /\ outcome = "complete" => fetched = ActiveFeeds

\* main has passed the first category, which has no webhook, and fetches a
\* feed of the second
C17_Witness ==
  /\ ~webhook.technology
  /\ pc = "fetch"
  /\ cat = 2
  /\ fetched = {"c1"}

\* C18: a run never ends in error because of the ledger load.
C18_LoadNeverFails ==
  failure # "ledger"

\* the answer is "yes" in any letter case with white space around it
IsYes(text) ==
  \E i \in 1..Len(text) :
    /\ i + 2 <= Len(text)
    /\ text[i] \in {"y", "Y"}
    /\ text[i + 1] \in {"e", "E"}
    /\ text[i + 2] \in {"s", "S"}
    /\ \A j \in 1..Len(text) : (j < i \/ j > i + 2) => text[j] \in {" ", "\n"}

\* C19: for a response with ok status and an answer text, isRelevant returns
\* true exactly when the text, lower-cased and trimmed, is "yes".
C19_YesOnly ==
  (/\ call.fn = "isRelevant"
   /\ call.done
   /\ call.arg.kind = "http"
   /\ call.arg.ok
   /\ call.arg.shape = "text") => (call.ret <=> IsYes(call.arg.text))

\* the answer " Yes" gave true
C19_Witness ==
  /\ call.fn = "isRelevant"
  /\ call.done
  /\ call.arg.shape = "text"
  /\ call.arg.text = <<" ", "Y", "e", "s">>
  /\ call.ret = TRUE

\* C20: cleanOldEntries returns the entries less than 7 days old, with
\* their timestamps, and nothing else; cleaning the result again at the same
\* time changes nothing.
C20_PruneExact ==
  (call.fn = "cleanOldEntries" /\ call.done) =>
    LET p == call.arg.posted
        t == call.arg.now
        q == call.ret
    IN /\ DOMAIN q \subseteq DOMAIN p
       /\ \A l \in DOMAIN p : l \in DOMAIN q <=> t - p[l] < SEVEN_DAYS
       /\ \A l \in DOMAIN q : q[l] = p[l]
       /\ call.again = q

\* an entry exactly 7 days old was removed, a younger one was kept
C20_Witness ==
  /\ call.fn = "cleanOldEntries"
  /\ call.done
  /\ "a" \in DOMAIN call.arg.posted
  /\ call.arg.posted["a"] = call.arg.now - SEVEN_DAYS
  /\ "a" \notin DOMAIN call.ret
  /\ "b" \in DOMAIN call.ret

\* the text ends in the three-character ellipsis marker
EndsInEllipsis(text) ==
  Len(text) >= 3 /\ SubSeq(text, Len(text) - 2, Len(text)) = Ellipsis

\* C21 as stated: for maxLength >= 3 the result of truncate is at most
\* maxLength long, is the text itself when the text is at most maxLength
\* long, and ends in the ellipsis marker exactly when the text was longer.
C21_EllipsisIffTruncated ==
  (call.fn = "truncate" /\ call.done) =>
    LET text == call.arg.text
        n == call.arg.maxLength
    IN /\ Len(call.ret) <= n
       /\ Len(text) <= n => call.ret = text
       /\ EndsInEllipsis(call.ret) <=> Len(text) > n

\* C21 (amended): the result is at most maxLength long; a text of at most
\* maxLength characters is returned as it is, so it ends in the marker only
\* when the text itself does; a longer text gives its first maxLength - 3
\* characters followed by the marker.
C21_TruncateBounded ==
  (call.fn = "truncate" /\ call.done) =>
    LET text == call.arg.text
        n == call.arg.maxLength
    IN /\ Len(call.ret) <= n
       /\ Len(text) <= n => call.ret = text
       /\ Len(text) > n =>
            /\ Len(call.ret) = n
            /\ EndsInEllipsis(call.ret)
            /\ \A i \in 1..(n - 3) : call.ret[i] = text[i]

\* a text longer than maxLength was cut and got the marker
C21_Witness ==
  /\ call.fn = "truncate"
  /\ call.done
  /\ call.arg.maxLength = 4
  /\ call.arg.text = <<"a", "a", "a", "a", "a">>
  /\ call.ret = <<"a", ".", ".", ".">>

\* C22: inside a run every publish attempt, successful or not, is followed
\* by the delay, the next classify or publish call comes only after the
\* delay has resolved, and no delay follows an article that is not relevant.
C22_Pacing ==
  [][~Stops =>
       /\ pc = "post" => pc' = "delay"
       /\ pc' = "delay" => pc = "post"
       /\ pc' = "post" => pc \in {"fetch", "classify", "delay"}
       /\ pc' = "classify" => pc \in {"fetch", "classify", "delay"}
       /\ pc = "delay" => success' = FALSE]_vars

\* the post of the first article failed, the delay has resolved and the
\* second article is being posted
C22_Witness ==
  /\ pc = "post"
  /\ idx = 2
  /\ articles[1].link \in failedPub
  /\ articles[1].link \notin delivered

\* C24: a link that is in main's ledger when a feed is fetched, marked for
\* whatever category, is not a new article of that feed, so it is neither
\* classified nor published for the category of the feed.
C24_SharedLedger ==
  [][pc = "fetch" => \A L \in DOMAIN posted : L \notin LinksOf(articles')]_vars

\* the feed of the third category lists a recent entry whose link was marked
\* in this run for the second category: it is no new article
C24_Witness ==
  /\ Running
  /\ cat = 3
  /\ \E i \in 1..Len(items) :
       /\ items[i].link \in (delivered \cup irrelevant) \ DOMAIN startPosted
       /\ Recent(items[i])
       /\ items[i].link \notin LinksOf(articles)

\* C25: a link that was published in a run that saved the ledger is not
\* published again in the next run, whatever the time that has passed and
\* whatever the publish date of the entry.  Stated for the deployment
\* without credential, where every mark of a run is a successful publish.
C25_PublishedOnceOverRuns ==
  [][(/\ ~apiKey
      /\ pc = "post"
      /\ success'
      /\ pubDate[Current].k = "date") => Current \notin prevHandled]_vars

\* C23: two invocations of main are never in progress at the same time.
C23_OneRunAtATime ==
  ~(pc # "idle" /\ other.pc # "idle")

\* C26: a write of the ledger file keeps every entry of the file that is
\* still inside the retention window.
C26_MarksDurable ==
  [][(file.kind = "object" /\ file'.kind = "object") =>
       \A L \in DOMAIN file.map :
         file.map[L] > now - SEVEN_DAYS => L \in DOMAIN file'.map]_vars

====
